---- MODULE Spec2Model ----
(***************************************************************************)
(* Model of the model-promotion decider of the wine-quality pipeline       *)
(* (src/update-best-model-package.py): the model registry (one model       *)
(* package group and its packages), and lambda_handler as a sequence of    *)
(* registry and store calls, one action per call, each of which may fail.  *)
(***************************************************************************)
EXTENDS Integers, Sequences, FiniteSets, TLC

\* ------------------------------------------------------------------------
\* Bounds of the model
\* ------------------------------------------------------------------------
\* Most packages the registry group holds (create_model_package is disabled
\* beyond it).
MaxPackages == 3
\* Most platform/store calls that fail over a behaviour.
MaxFailures == 1
\* Longest generated metric name of the direction specification.
MaxNameLen == 3

\* Lambda invocations that may be in flight at once.
Invocations == {1, 2}

\* ------------------------------------------------------------------------
\* Strings are sequences of characters
\* ------------------------------------------------------------------------
Accuracy == <<"a", "c", "c", "u", "r", "a", "c", "y">>
Auc == <<"a", "u", "c">>
F1 == <<"f", "1">>
Map == <<"m", "a", "p">>
Ndcg == <<"n", "d", "c", "g">>
Logloss == <<"l", "o", "g", "l", "o", "s", "s">>
Validation == <<"v", "a", "l", "i", "d", "a", "t", "i", "o", "n", ":">>

\* f'validation:{eval_metric}'
metric_name(eval_metric) == Validation \o eval_metric

\* Python's `sub in s` on strings: scan s for a position where sub matches.
RECURSIVE StartsWith(_, _)
StartsWith(s, sub) ==
    IF sub = <<>> THEN TRUE
    ELSE IF s = <<>> THEN FALSE
    ELSE Head(s) = Head(sub) /\ StartsWith(Tail(s), Tail(sub))

\* Variant: a prefix test (startswith) where the code tests containment.
StrIn_startswith(sub, s) == StartsWith(s, sub)

RECURSIVE StrIn(_, _)
StrIn(sub, s) ==
    IF StartsWith(s, sub) THEN TRUE
    ELSE IF s = <<>> THEN FALSE
    ELSE StrIn(sub, Tail(s))

maximize_metrics == <<Accuracy, Auc, F1, Map, Ndcg>>

\* any(metric in metric_name for metric in maximize_metrics)
maximize(name) ==
    \E i \in 1..Len(maximize_metrics) : StrIn(maximize_metrics[i], name)

\* ------------------------------------------------------------------------
\* Training metadata documents and events
\* ------------------------------------------------------------------------
None == "None"

\* The eval_metric values of the events.
EvalMetrics == {Accuracy, Logloss}
\* Metric values in hundredths (0.80 is 80).
\* The training metadata documents of the store, by their
\* ModelRegistry.ModelMetrics: one that lists no validation metric, and two
\* that list both, the second with the larger value of each.
NoMetrics == <<>>
Metrics1 == (metric_name(Accuracy) :> 80) @@ (metric_name(Logloss) :> 30)
Metrics2 == (metric_name(Accuracy) :> 85) @@ (metric_name(Logloss) :> 45)
TrainingMetadata == {NoMetrics, Metrics1, Metrics2}

\* ------------------------------------------------------------------------
\* State
\* ------------------------------------------------------------------------
VARIABLES
    group_exists,   \* the model package group is in list_model_package_groups
    packages,       \* the packages of the group; a package's arn is its index
    inv,            \* per invocation: position in lambda_handler and its locals
    failures,       \* calls that have failed so far
    allOk,          \* every invocation that has ended returned statusCode 200
    ended,          \* some invocation has ended
    nameIn,         \* direction specification: the eval_metric classified
    dirOut,         \* direction specification: the direction computed
    store,          \* the bucket: per prefix, the objects list_objects_v2 returns
    resolved,       \* resolver specification: what each resolver returned
    platform,       \* jobs and models created on the managed platform
    run,            \* the stage handler invocation: position, inputs, result
    clock,          \* the current second, as the date stamp strftime yields
    loaded,         \* per serving process of a saver: the date it computed on load
    bucket,         \* the metadata records put_object has written
    saves           \* the save-metadata invocations so far, with their results

vars == <<group_exists, packages, inv, failures, allOk, ended, nameIn, dirOut, store, resolved,
          platform, run, clock, loaded, bucket, saves>>

saverVars == <<clock, loaded, bucket, saves>>

\* An invocation that is not a second run of an event.
NoRerun == [is |-> FALSE, training_metadata |-> <<>>, approved |-> {}]

Idle ==
    [pc |-> "idle",
     eval_metric |-> <<>>,
     training_metadata |-> <<>>,
     last_training_job_model_package_arn |-> 0,
     num_approved_packages |-> -1,
     production_model_package_arn |-> 0,
     production_model_metric |-> 0,
     last_training_job_metric |-> 0,
     best_model |-> None,
     statusCode |-> 0,
     message |-> None,
     writes |-> <<>>,
     failed |-> None,
     metric_reads |-> 0,
     before |-> <<>>,
     rerun |-> NoRerun]

ApprovedArns(pk) == {a \in 1..Len(pk) : pk[a].ModelApprovalStatus = "Approved"}

Running(p) == inv[p].pc \notin {"idle", "done", "raised"}

\* A call of the platform or the store may fail while failures remain.
MayFail == failures < MaxFailures

\* The handler returns {'statusCode': code, 'body': message}.
Return(p, code, msg, rec) ==
    /\ inv' = [inv EXCEPT ![p] =
                 [rec EXCEPT !.pc = "done", !.statusCode = code, !.message = msg]]
    /\ allOk' = (allOk /\ code = 200)
    /\ ended' = TRUE

Goto(p, label, rec) ==
    /\ inv' = [inv EXCEPT ![p] = [rec EXCEPT !.pc = label]]
    /\ UNCHANGED <<allOk, ended>>

\* Variant: a registry that drops the Rejected writes.
SetStatus_keeps_rejected(pk, arn, status) ==
    IF status = "Rejected" THEN pk
    ELSE [pk EXCEPT ![arn].ModelApprovalStatus = status]

\* sagemaker_client.update_model_package(ModelPackageArn=arn,
\*                                       ModelApprovalStatus=status)
SetStatus(pk, arn, status) ==
    [pk EXCEPT ![arn].ModelApprovalStatus = status]

\* The call (or the lookup) that raised in this invocation.
Failed(rec, call) == [rec EXCEPT !.failed = call]

Wrote(rec, arn, status) ==
    [rec EXCEPT !.writes = Append(@, <<arn, status>>)]


\* ------------------------------------------------------------------------
\* The bucket and the stage handlers' state
\* ------------------------------------------------------------------------
\* Objects a prefix may hold; keys and timestamps are ranks 1..MaxObjects.
MaxObjects == 3

\* The prefixes the handlers list.
BestHyp == "best_hyp_config_prefix"
ProcessingMetadata == "pipeline-metadata/processing-job-metadata"
BatchNt == "batch_nt"
TrainDf == "preprocessed_data/training/train"
Prefixes == {BestHyp, ProcessingMetadata, BatchNt, TrainDf}

\* The call sites that resolve the latest object under a prefix.
Resolvers ==
    {<<"launch-training-job", BestHyp>>, <<"launch-training-job", ProcessingMetadata>>,
     <<"launch-batch-job", BatchNt>>, <<"save-processing-job-metadata", TrainDf>>,
     <<"launch-hpo", ProcessingMetadata>>}

Unresolved == [done |-> FALSE, value |-> <<>>]

\* hyperparameters of the training launcher before it has read any.
NoHyperParameters == [from |-> None, record |-> 0, eval_metric |-> None]

\* No stage handler is running.
NoRun ==
    [handler |-> None, pc |-> "idle", debug_ |-> FALSE, config_data |-> {},
     eval_metric |-> FALSE, objective_input |-> FALSE,
     outcome |-> None, statusCode |-> 0, body |-> None, missing_field |-> None,
     job_name |-> None, Status |-> None, no_contents |-> None,
     hyperparameters |-> NoHyperParameters,
     approved_arn |-> 0, approved_model_url |-> <<>>, PrimaryContainer |-> <<>>,
     calls |-> <<>>, before |-> {}]

\* The save-metadata handlers and the processes that may serve one of them.
Savers ==
    {"save-processing-job-metadata", "save-hpo-metadata", "save-training-metadata",
     "save-batch-metadata"}
Processes == {1, 2}

\* No saver has been loaded or invoked.
InitSaversIdle ==
    /\ clock = 1
    /\ loaded = [h \in Savers |-> [q \in Processes |-> 0]]
    /\ bucket = {}
    /\ saves = <<>>

InitStagesIdle ==
    /\ store = [x \in Prefixes |-> <<>>]
    /\ resolved = [r \in Resolvers |-> Unresolved]
    /\ platform = {}
    /\ run = NoRun
    /\ InitSaversIdle

\* ------------------------------------------------------------------------
\* Initial state: the pipeline is deployed, nothing has run yet
\* ------------------------------------------------------------------------
InitRegistry ==
    /\ group_exists = FALSE
    /\ packages = <<>>
    /\ inv = [p \in Invocations |-> Idle]
    /\ failures = 0
    /\ allOk = TRUE
    /\ ended = FALSE

Init ==
    /\ InitRegistry
    /\ nameIn = <<>>
    /\ dirOut = None
    /\ InitStagesIdle

\* ------------------------------------------------------------------------
\* lambda_handler, one action per call it makes
\* ------------------------------------------------------------------------
\* Invocations that will still create a package.
Pending == {q \in Invocations : Running(q) /\ inv[q].last_training_job_model_package_arn = 0}

\* The orchestrator invokes the handler with an event (lines 97-104).
Invoke(p) ==
    /\ inv[p].pc = "idle"
    /\ Len(packages) + Cardinality(Pending) < MaxPackages
    /\ \E em \in EvalMetrics :
         inv' = [inv EXCEPT ![p] =
                   [Idle EXCEPT !.pc = "list_groups",
                                !.eval_metric = em,
                                !.before = [a \in 1..Len(packages) |->
                                              packages[a].ModelApprovalStatus]]]
    /\ UNCHANGED <<group_exists, packages, failures, allOk, ended, nameIn, dirOut, store, resolved, platform, run, saverVars>>

\* An invocation that starts only when no other one is in flight.
InvokeAlone(p) ==
    /\ \A q \in Invocations \ {p} : inv[q].pc = "idle"
    /\ Invoke(p)

\* sagemaker_client.list_model_package_groups() (lines 106-110, 121-123): a
\* ClientError is re-raised and leaves the handler.
ListGroups(p) ==
    /\ inv[p].pc = "list_groups"
    /\ \/ /\ Goto(p, IF group_exists THEN "get_object" ELSE "create_group", inv[p])
          /\ UNCHANGED failures
       \/ /\ MayFail
          /\ failures' = failures + 1
          /\ inv' = [inv EXCEPT ![p] = [Failed(inv[p], "list_model_package_groups") EXCEPT !.pc = "raised"]]
          /\ allOk' = FALSE
          /\ ended' = TRUE
    /\ UNCHANGED <<group_exists, packages, nameIn, dirOut, store, resolved, platform, run, saverVars>>

\* sagemaker_client.create_model_package_group(...) (lines 113-123): fails
\* when the group exists by now, and the ClientError is re-raised.
CreateGroup(p) ==
    /\ inv[p].pc = "create_group"
    /\ \/ /\ ~group_exists
          /\ group_exists' = TRUE
          /\ Goto(p, "get_object", inv[p])
          /\ UNCHANGED failures
       \/ /\ group_exists \/ MayFail
          /\ failures' = IF group_exists THEN failures ELSE failures + 1
          /\ inv' = [inv EXCEPT ![p] = [Failed(inv[p], "create_model_package_group") EXCEPT !.pc = "raised"]]
          /\ allOk' = FALSE
          /\ ended' = TRUE
          /\ UNCHANGED group_exists
    /\ UNCHANGED <<packages, nameIn, dirOut, store, resolved, platform, run, saverVars>>

\* create_model_package: s3_client.get_object of the training metadata
\* (lines 25-32); an error is re-raised (79-87) and caught at line 233.
GetObject(p) ==
    /\ inv[p].pc = "get_object"
    /\ \/ /\ \E tm \in TrainingMetadata :
               Goto(p, "create_package", [inv[p] EXCEPT !.training_metadata = tm])
          /\ UNCHANGED failures
       \/ /\ MayFail
          /\ failures' = failures + 1
          /\ Return(p, 500, "Error", Failed(inv[p], "get_object"))
    /\ UNCHANGED <<group_exists, packages, nameIn, dirOut, store, resolved, platform, run, saverVars>>

\* training_metadata['ModelRegistry']['ModelDataUrl'] (line 31): the artifact
\* of the training job the record describes.
ModelDataUrl(tm) == <<"ModelDataUrl", tm>>

\* Variant: the package is registered Approved.
NewPackage_approved(model_status, tm) ==
    [ModelApprovalStatus |-> "Approved",
     CustomerMetadataProperties |-> tm,
     ModelDataUrl |-> ModelDataUrl(tm),
     Model_version |-> <<>>]

\* The package create_model_package registers (lines 33-59): the status is
\* overwritten to PendingManualApproval at line 33 whatever the argument was,
\* every listed metric becomes a string property (str(value), read back with
\* float(): the round trip is exact for these values).
NewPackage(model_status, tm) ==
    [ModelApprovalStatus |-> "PendingManualApproval",
     CustomerMetadataProperties |-> tm,
     ModelDataUrl |-> ModelDataUrl(tm),
     Model_version |-> <<>>]

\* sagemaker_client.create_model_package(**package_args) (lines 62-63).
CreatePackage(p) ==
    /\ inv[p].pc = "create_package"
    /\ \/ /\ packages' = Append(packages,
                 NewPackage("PendingManualApproval", inv[p].training_metadata))
          /\ Goto(p, "describe_new",
                  [inv[p] EXCEPT !.last_training_job_model_package_arn = Len(packages) + 1])
          /\ UNCHANGED failures
       \/ /\ MayFail
          /\ failures' = failures + 1
          /\ Return(p, 500, "Error", Failed(inv[p], "create_model_package"))
          /\ UNCHANGED packages
    /\ UNCHANGED <<group_exists, nameIn, dirOut, store, resolved, platform, run, saverVars>>

\* describe_model_package and update_model_package of the new package's
\* Model_version (lines 66-77); the approval status is not touched.
SetVersion(p) ==
    /\ inv[p].pc = "describe_new"
    /\ LET arn == inv[p].last_training_job_model_package_arn IN
       \/ /\ packages' = [packages EXCEPT ![arn].Model_version = <<1, 0, arn>>]
          /\ Goto(p, "list_approved", inv[p])
          /\ UNCHANGED failures
       \/ /\ MayFail
          /\ failures' = failures + 1
          /\ \E call \in {"describe_model_package", "update_model_package"} :
               Return(p, 500, "Error", Failed(inv[p], call))
          /\ UNCHANGED packages
    /\ UNCHANGED <<group_exists, nameIn, dirOut, store, resolved, platform, run, saverVars>>

\* Variant: with several Approved packages the first one listed is taken as
\* production.
Selection_first(approved) ==
    IF Cardinality(approved) >= 1
    THEN [next |-> "get_production_metric",
          arn |-> CHOOSE a \in approved : \A b \in approved : a <= b]
    ELSE [next |-> "approve_first", arn |-> 0]

\* The branch on num_approved_packages (lines 134-150): with one Approved
\* package it is production, with none there is no production, with more the
\* handler returns.
Selection(approved) ==
    IF Cardinality(approved) = 1
    THEN [next |-> "get_production_metric", arn |-> CHOOSE a \in approved : TRUE]
    ELSE IF Cardinality(approved) = 0
    THEN [next |-> "approve_first", arn |-> 0]
    ELSE [next |-> "return", arn |-> 0]

\* sagemaker_client.list_model_packages(ModelApprovalStatus='Approved')
\* (lines 130-153).  A BotoCoreError/ClientError is only logged (152-153), so
\* line 156 reads an unbound production_model_package_arn and the
\* UnboundLocalError is caught at line 239.
ListApproved(p) ==
    /\ inv[p].pc = "list_approved"
    /\ LET approved == ApprovedArns(packages)
           sel == Selection(approved)
           rec == [inv[p] EXCEPT !.num_approved_packages = Cardinality(approved),
                                 !.production_model_package_arn = sel.arn]
       IN
       \/ /\ sel.next # "return"
          /\ Goto(p, sel.next, rec)
          /\ UNCHANGED failures
       \/ /\ sel.next = "return"
          /\ Return(p, 500, "There are more than 1 models in production", rec)
          /\ UNCHANGED failures
       \/ /\ MayFail
          /\ failures' = failures + 1
          /\ Return(p, 500, "Unexpected error", Failed(inv[p], "list_model_packages"))
    /\ UNCHANGED <<group_exists, packages, nameIn, dirOut, store, resolved, platform, run, saverVars>>

\* Variant: the cold start reads the new package's metric before approving.
ApproveFirst_reads_metric(p) ==
    /\ inv[p].pc = "approve_first"
    /\ LET arn == inv[p].last_training_job_model_package_arn
           rec == [inv[p] EXCEPT !.metric_reads = @ + 1]
       IN
       IF metric_name(inv[p].eval_metric) \in DOMAIN packages[arn].CustomerMetadataProperties
       THEN /\ packages' = SetStatus(packages, arn, "Approved")
            /\ Return(p, 200, "First model package approved as there are no existing approved models.",
                      Wrote(rec, arn, "Approved"))
       ELSE /\ Return(p, 500, "Last_training_job_metric error", Failed(rec, "KeyError"))
            /\ UNCHANGED packages
    /\ UNCHANGED <<group_exists, failures, nameIn, dirOut, store, resolved, platform, run, saverVars>>

\* No model in production: the new package is approved (lines 156-168).
ApproveFirst(p) ==
    /\ inv[p].pc = "approve_first"
    /\ LET arn == inv[p].last_training_job_model_package_arn IN
       \/ /\ packages' = SetStatus(packages, arn, "Approved")
          /\ Return(p, 200, "First model package approved as there are no existing approved models.",
                    Wrote(inv[p], arn, "Approved"))
          /\ UNCHANGED failures
       \/ /\ MayFail
          /\ failures' = failures + 1
          /\ Return(p, 500, "Error", Failed(inv[p], "update_model_package"))
          /\ UNCHANGED packages
    /\ UNCHANGED <<group_exists, nameIn, dirOut, store, resolved, platform, run, saverVars>>

\* get_model_metric (lines 89-95): the property of the described package.
get_model_metric(model_package_arn, name) ==
    packages[model_package_arn].CustomerMetadataProperties[name]

\* response['CustomerMetadataProperties'][metric_name] raises KeyError.
KeyError(model_package_arn, name) ==
    name \notin DOMAIN packages[model_package_arn].CustomerMetadataProperties

\* production_model_metric = get_model_metric(...) (lines 171-178).
GetProductionMetric(p) ==
    /\ inv[p].pc = "get_production_metric"
    /\ LET v == get_model_metric(inv[p].production_model_package_arn,
                                 metric_name(inv[p].eval_metric))
           rec == [inv[p] EXCEPT !.metric_reads = @ + 1]
       IN
       \/ /\ ~KeyError(inv[p].production_model_package_arn, metric_name(inv[p].eval_metric))
          /\ Goto(p, "get_last_metric", [rec EXCEPT !.production_model_metric = v])
          /\ UNCHANGED failures
       \/ /\ KeyError(inv[p].production_model_package_arn, metric_name(inv[p].eval_metric))
          /\ Return(p, 500, "Production_model_metric error", Failed(rec, "KeyError"))
          /\ UNCHANGED failures
       \/ /\ MayFail
          /\ failures' = failures + 1
          /\ Return(p, 500, "Production_model_metric error", Failed(rec, "describe_model_package"))
    /\ UNCHANGED <<group_exists, packages, nameIn, dirOut, store, resolved, platform, run, saverVars>>

\* Variant: non-strict comparisons, a tie keeps production.
best_tie_production(name, production_model_metric, last_training_job_metric) ==
    IF maximize(name)
    THEN IF production_model_metric >= last_training_job_metric
         THEN "production" ELSE "new"
    ELSE IF production_model_metric <= last_training_job_metric
         THEN "production" ELSE "new"

\* Variant: every metric compared as a maximize-type metric.
best_always_maximize(name, production_model_metric, last_training_job_metric) ==
    IF production_model_metric > last_training_job_metric
    THEN "production" ELSE "new"

\* The comparison of lines 188-203: the direction from the metric name, then
\* production is best only when its value is strictly better.
best(name, production_model_metric, last_training_job_metric) ==
    IF maximize(name)
    THEN IF production_model_metric > last_training_job_metric
         THEN "production" ELSE "new"
    ELSE IF production_model_metric < last_training_job_metric
         THEN "production" ELSE "new"

\* last_training_job_metric = get_model_metric(...) (lines 179-186), then the
\* comparison (188-203), which makes no call.
GetLastMetric(p) ==
    /\ inv[p].pc = "get_last_metric"
    /\ LET name == metric_name(inv[p].eval_metric)
           v == get_model_metric(inv[p].last_training_job_model_package_arn, name)
           rec == [inv[p] EXCEPT !.metric_reads = @ + 1]
           b == best(name, inv[p].production_model_metric, v)
       IN
       \/ /\ ~KeyError(inv[p].last_training_job_model_package_arn, name)
          /\ Goto(p, IF b = "production" THEN "reject_new" ELSE "approve_new",
                  [rec EXCEPT !.last_training_job_metric = v, !.best_model = b])
          /\ UNCHANGED failures
       \/ /\ KeyError(inv[p].last_training_job_model_package_arn, name)
          /\ Return(p, 500, "Last_training_job_metric error", Failed(rec, "KeyError"))
          /\ UNCHANGED failures
       \/ /\ MayFail
          /\ failures' = failures + 1
          /\ Return(p, 500, "Last_training_job_metric error", Failed(rec, "describe_model_package"))
    /\ UNCHANGED <<group_exists, packages, nameIn, dirOut, store, resolved, platform, run, saverVars>>

\* Variant: production is written Approved again when it wins.
RejectNew_rewrites_production(p) ==
    /\ inv[p].pc = "reject_new"
    /\ LET arn == inv[p].last_training_job_model_package_arn
           prod == inv[p].production_model_package_arn
       IN
       /\ packages' = SetStatus(SetStatus(packages, arn, "Rejected"), prod, "Approved")
       /\ Return(p, 200, "Production model remains the best",
                 Wrote(Wrote(inv[p], arn, "Rejected"), prod, "Approved"))
    /\ UNCHANGED <<group_exists, failures, nameIn, dirOut, store, resolved, platform, run, saverVars>>

\* best_model == 'production': the new package is rejected (lines 205-216).
RejectNew(p) ==
    /\ inv[p].pc = "reject_new"
    /\ LET arn == inv[p].last_training_job_model_package_arn IN
       \/ /\ packages' = SetStatus(packages, arn, "Rejected")
          /\ Return(p, 200, "Production model remains the best",
                    Wrote(inv[p], arn, "Rejected"))
          /\ UNCHANGED failures
       \/ /\ MayFail
          /\ failures' = failures + 1
          /\ Return(p, 500, "Error", Failed(inv[p], "update_model_package"))
          /\ UNCHANGED packages
    /\ UNCHANGED <<group_exists, nameIn, dirOut, store, resolved, platform, run, saverVars>>

\* best_model == 'new', first call: the new package is approved (218-221).
ApproveNew(p) ==
    /\ inv[p].pc = "approve_new"
    /\ LET arn == inv[p].last_training_job_model_package_arn IN
       \/ /\ packages' = SetStatus(packages, arn, "Approved")
          /\ Goto(p, "reject_production", Wrote(inv[p], arn, "Approved"))
          /\ UNCHANGED failures
       \/ /\ MayFail
          /\ failures' = failures + 1
          /\ Return(p, 500, "Error", Failed(inv[p], "update_model_package"))
          /\ UNCHANGED packages
    /\ UNCHANGED <<group_exists, nameIn, dirOut, store, resolved, platform, run, saverVars>>

\* Variant: production is put back to PendingManualApproval.
RejectProduction_pending(p) ==
    /\ inv[p].pc = "reject_production"
    /\ LET arn == inv[p].production_model_package_arn IN
       /\ packages' = SetStatus(packages, arn, "PendingManualApproval")
       /\ Return(p, 200, "New model from last training job is the best now",
                 Wrote(inv[p], arn, "PendingManualApproval"))
    /\ UNCHANGED <<group_exists, failures, nameIn, dirOut, store, resolved, platform, run, saverVars>>

\* best_model == 'new', second call: production is rejected (222-231).
RejectProduction(p) ==
    /\ inv[p].pc = "reject_production"
    /\ LET arn == inv[p].production_model_package_arn IN
       \/ /\ packages' = SetStatus(packages, arn, "Rejected")
          /\ Return(p, 200, "New model from last training job is the best now",
                    Wrote(inv[p], arn, "Rejected"))
          /\ UNCHANGED failures
       \/ /\ MayFail
          /\ failures' = failures + 1
          /\ Return(p, 500, "Error", Failed(inv[p], "update_model_package"))
          /\ UNCHANGED packages
    /\ UNCHANGED <<group_exists, nameIn, dirOut, store, resolved, platform, run, saverVars>>

\* The invocation is over; the orchestrator may invoke the handler again.
Finish(p) ==
    /\ inv[p].pc \in {"done", "raised"}
    /\ inv' = [inv EXCEPT ![p] = Idle]
    /\ UNCHANGED <<group_exists, packages, failures, allOk, ended, nameIn, dirOut, store, resolved, platform, run, saverVars>>

Step(p) ==
    \/ ListGroups(p)
    \/ CreateGroup(p)
    \/ GetObject(p)
    \/ CreatePackage(p)
    \/ SetVersion(p)
    \/ ListApproved(p)
    \/ ApproveFirst(p)
    \/ GetProductionMetric(p)
    \/ GetLastMetric(p)
    \/ RejectNew(p)
    \/ ApproveNew(p)
    \/ RejectProduction(p)
    \/ Finish(p)

\* Invocations may overlap, their calls interleaved in any order.
Next == \E p \in Invocations : Invoke(p) \/ Step(p)

Spec == Init /\ [][Next]_vars

\* The orchestrator runs the handler a second time with the event of the
\* invocation that has just returned 200 (lines 97-104): the same eval_metric
\* and the same TrainingMetadataJson.
Reinvoke(p) ==
    /\ inv[p].pc = "done"
    /\ inv[p].statusCode = 200
    /\ \A q \in Invocations \ {p} : inv[q].pc = "idle"
    /\ Len(packages) < MaxPackages
    /\ inv' = [inv EXCEPT ![p] =
                 [Idle EXCEPT !.pc = "list_groups",
                              !.eval_metric = inv[p].eval_metric,
                              !.before = [a \in 1..Len(packages) |->
                                            packages[a].ModelApprovalStatus],
                              !.rerun = [is |-> TRUE,
                                         training_metadata |-> inv[p].training_metadata,
                                         approved |-> ApprovedArns(packages)]]]
    /\ UNCHANGED <<group_exists, packages, failures, allOk, ended, nameIn, dirOut, store, resolved, platform, run, saverVars>>

\* Invocations never overlap.
NextSeq == \E p \in Invocations : InvokeAlone(p) \/ Reinvoke(p) \/ Step(p)

SpecSeq == Init /\ [][NextSeq]_vars

\* ------------------------------------------------------------------------
\* The metric direction as a function of the name (lines 101-103, 188-189)
\* ------------------------------------------------------------------------
Alphabet == {"a", "u", "c", "f", "1", "m", "p", "A"}

RECURSIVE StringsUpTo(_)
StringsUpTo(n) ==
    IF n = 0 THEN {<<>>}
    ELSE LET shorter == StringsUpTo(n - 1) IN
         shorter \cup {Append(s, ch) : s \in shorter, ch \in Alphabet}

\* eval_metric values of the direction specification: every string over
\* Alphabet up to MaxNameLen, and names of metrics of the training image.
Names ==
    StringsUpTo(MaxNameLen) \cup
    {Accuracy, Auc, F1, Map, Ndcg, Logloss,
     <<"r", "m", "s", "e">>, <<"m", "a", "e">>, <<"e", "r", "r", "o", "r">>,
     <<"m", "e", "r", "r", "o", "r">>, <<"a", "u", "c", "p", "r">>,
     <<"i", "n", "a", "c", "c", "u", "r", "a", "c", "y">>,
     <<"A", "c", "c", "u", "r", "a", "c", "y">>, <<"A", "U", "C">>,
     <<"F", "1">>, <<"M", "A", "P">>, <<"N", "D", "C", "G">>,
     <<"a", "c", "c", "u", "r", "a", "c">>, <<"c", "c", "u", "r", "a", "c", "y">>,
     <<"n", "d", "c">>, <<"d", "c", "g">>, <<"n", "d", "c", "g", "@", "5">>,
     <<"N", "o", "n", "e">>}

InitDir ==
    /\ InitRegistry
    /\ nameIn \in Names
    /\ dirOut = None
    /\ InitStagesIdle

\* maximize = any(metric in metric_name for metric in maximize_metrics) on
\* metric_name = f'validation:{eval_metric}'.
Classify ==
    /\ dirOut = None
    /\ dirOut' = IF maximize(metric_name(nameIn)) THEN "maximize" ELSE "minimize"
    /\ UNCHANGED <<group_exists, packages, inv, failures, allOk, ended, nameIn,
                   store, resolved, platform, run, saverVars>>

NextDir == Classify

SpecDir == InitDir /\ [][NextDir]_vars

\* ------------------------------------------------------------------------
\* Resolver specification: the latest object under a prefix
\* ------------------------------------------------------------------------
\* An entry of response['Contents'].
Objects == [Key : 1..MaxObjects, LastModified : 1..MaxObjects]

\* The non-empty listings of a prefix: distinct keys, in any order, with
\* timestamps that may be equal.
Listings ==
    {l \in UNION {[1..n -> Objects] : n \in 1..MaxObjects} :
        \A i, j \in DOMAIN l : i # j => l[i].Key # l[j].Key}

\* The document get_object returns for a key.
Body(key) == [DatasetProperties |-> key]

\* Variant: orders the entries by key.
sorted_by_Key(contents) ==
    [i \in DOMAIN contents |->
        CHOOSE o \in {contents[j] : j \in DOMAIN contents} :
            Cardinality({j \in DOMAIN contents : contents[j].Key <= o.Key}) = i]

\* sorted(contents, key=lambda obj: obj['LastModified']): ascending and
\* stable, entries with equal timestamps keep their listing order.
RECURSIVE sorted(_)
sorted(contents) ==
    IF contents = <<>> THEN <<>>
    ELSE LET n == Len(contents)
             s == sorted(SubSeq(contents, 1, n - 1))
             o == contents[n]
             k == Cardinality({i \in DOMAIN s : s[i].LastModified <= o.LastModified})
         IN SubSeq(s, 1, k) \o <<o>> \o SubSeq(s, k + 1, Len(s))

\* launch-training-job.py, get_last_modified: (metadata_json, last_object_key).
get_last_modified_training(contents) ==
    LET contents_sorted == sorted(contents)
        last_object_key == contents_sorted[Len(contents_sorted)].Key
    IN <<Body(last_object_key), last_object_key>>

\* launch-batch-job.py, get_last_modified: last_object_key.
get_last_modified_batch(contents) ==
    LET contents_sorted == sorted(contents)
    IN <<contents_sorted[Len(contents_sorted)].Key>>

\* save-processing-job-metadata.py, get_last_modified:
\* f"s3://{source_bucket}/{last_df_key}".
get_last_modified_saver(contents) ==
    LET contents_sorted == sorted(contents)
        last_df_key == contents_sorted[Len(contents_sorted)].Key
    IN <<"s3://", "source_bucket", "/", last_df_key>>

\* launch-hpo.py, get_processing_metadata: the document of
\* response['Contents'][-1]['Key'].
get_processing_metadata(contents) ==
    <<Body(contents[Len(contents)].Key)>>

\* What the call site r returns on a listing.
Resolve(r, contents) ==
    CASE r[1] = "launch-training-job" -> get_last_modified_training(contents)
      [] r[1] = "launch-batch-job" -> get_last_modified_batch(contents)
      [] r[1] = "save-processing-job-metadata" -> get_last_modified_saver(contents)
      [] r[1] = "launch-hpo" -> get_processing_metadata(contents)

\* One prefix of the bucket holds a listing.
InitList ==
    /\ InitRegistry
    /\ nameIn = <<>>
    /\ dirOut = None
    /\ \E x \in Prefixes, l \in Listings :
          store = [y \in Prefixes |-> IF y = x THEN l ELSE <<>>]
    /\ resolved = [r \in Resolvers |-> Unresolved]
    /\ platform = {}
    /\ run = NoRun
    /\ InitSaversIdle

\* A call site resolves the latest object of its prefix.
ResolveLatest(r) ==
    /\ ~resolved[r].done
    /\ store[r[2]] # <<>>
    /\ resolved' = [resolved EXCEPT ![r] = [done |-> TRUE, value |-> Resolve(r, store[r[2]])]]
    /\ UNCHANGED <<group_exists, packages, inv, failures, allOk, ended, nameIn, dirOut,
                   store, platform, run, saverVars>>

NextList == \E r \in Resolvers : ResolveLatest(r)

SpecList == InitList /\ [][NextList]_vars

\* ------------------------------------------------------------------------
\* Stage handlers: the four launchers and the four status checks
\* ------------------------------------------------------------------------
Launchers ==
    {"launch-processing-job", "launch-hpo", "launch-training-job", "launch-batch-job"}
StatusChecks ==
    {"get-processing-job-status", "get-hpo-job-status", "get-training-job-status",
     "get-batch-job-status"}

\* The fields each launcher reads from its configuration document, in the
\* order it reads them.
ProcessingFields ==
    <<"requirements", "processing_script", "input_data_location", "output_hpo_location",
      "output_training_location", "wine_quality_metadata_location", "InstanceType",
      "ImageUri", "ContainerEntrypointScript", "role">>
TrainingFields == <<"TrainingImage", "RoleArn", "InstanceType", "S3OutputPath">>
BatchFields ==
    <<"InstanceType", "S3OutputPath", "DataSourceS3Uri", "TrainingImage", "RoleArn">>
\* launch-hpo reads the objective from the document only without objective_input.
HpoFieldsFirst(objective_input) ==
    <<"Strategy", "ResourceLimits">>
        \o (IF objective_input THEN <<>> ELSE <<"HyperParameterTuningJobObjective">>)
        \o <<"ParameterRanges">>
HpoFieldsLast == <<"TrainingImage", "S3OutputPath", "InstanceType", "RoleArn">>

Range(fields) == {fields[i] : i \in DOMAIN fields}

\* Variant: only the first field is looked up.
Missing_first_only(fields, config_data) ==
    IF fields # <<>> /\ fields[1] \notin config_data THEN fields[1] ELSE None

\* The key of the KeyError that reading the fields in order raises: the first
\* field the document lacks, None when it has them all.
Missing(fields, config_data) ==
    LET m == {i \in DOMAIN fields : fields[i] \notin config_data}
    IN IF m = {} THEN None ELSE fields[CHOOSE i \in m : \A j \in m : i <= j]

\* The fields an invocation needs: the launcher's own, and for the training
\* launcher HyperParameters of the default document when no tuned record exists.
Required(h, objective_input, st) ==
    CASE h = "launch-processing-job" -> Range(ProcessingFields)
      [] h = "launch-hpo" -> Range(HpoFieldsFirst(objective_input)) \cup Range(HpoFieldsLast)
      [] h = "launch-training-job" ->
            Range(TrainingFields)
                \cup (IF st[BestHyp] = <<>> THEN {"HyperParameters"} ELSE {})
      [] h = "launch-batch-job" -> Range(BatchFields)
      [] OTHER -> {}

\* Documents: complete, or lacking exactly one field.
AllFields(h) ==
    CASE h = "launch-processing-job" -> Range(ProcessingFields)
      [] h = "launch-hpo" -> Range(HpoFieldsFirst(FALSE)) \cup Range(HpoFieldsLast)
      [] h = "launch-training-job" -> Range(TrainingFields) \cup {"HyperParameters"}
      [] h = "launch-batch-job" -> Range(BatchFields)
      [] OTHER -> {}
Configs(h) == {AllFields(h)} \cup {AllFields(h) \ {f} : f \in AllFields(h)}

\* A listing whose newest object is not its last key.
SomeListing == <<[Key |-> 1, LastModified |-> 2], [Key |-> 2, LastModified |-> 1]>>

\* An Approved package as the decider leaves it.
ApprovedPackage ==
    [NewPackage("PendingManualApproval", Metrics1) EXCEPT
        !.ModelApprovalStatus = "Approved", !.Model_version = <<1, 0, 1>>]

\* A Rejected package of another training job.
RejectedPackage ==
    [NewPackage("PendingManualApproval", Metrics2) EXCEPT
        !.ModelApprovalStatus = "Rejected", !.Model_version = <<1, 0, 1>>]

\* The pipeline has run before: each listed prefix is empty or not, the
\* registry holds no package, a Rejected one, an Approved one, or both.
InitStages ==
    /\ packages \in {<<>>, <<RejectedPackage>>, <<ApprovedPackage>>,
                      <<RejectedPackage, ApprovedPackage>>}
    /\ group_exists = (packages # <<>>)
    /\ inv = [p \in Invocations |-> Idle]
    /\ failures = 0
    /\ allOk = TRUE
    /\ ended = FALSE
    /\ nameIn = <<>>
    /\ dirOut = None
    /\ store \in {st \in [Prefixes -> {<<>>, SomeListing}] : st[TrainDf] = <<>>}
    /\ resolved = [r \in Resolvers |-> Unresolved]
    /\ platform = {}
    /\ run = NoRun
    /\ InitSaversIdle

\* What a stage action leaves alone besides failures, platform and run.
StageFrame ==
    UNCHANGED <<group_exists, packages, inv, allOk, ended, nameIn, dirOut, store, resolved,
                saverVars>>

CallFails == MayFail /\ failures' = failures + 1

\* return {'statusCode': code, 'body': body}; field is the key the body names.
StageReturn(code, body, field) ==
    run' = [run EXCEPT !.pc = "done", !.outcome = "result", !.statusCode = code,
                       !.body = body, !.missing_field = field]

\* return results: a dict without statusCode that carries the job name.
StageResults(rec, name) ==
    run' = [rec EXCEPT !.pc = "done", !.outcome = "result", !.job_name = name]

\* An exception leaves lambda_handler.
StageRaise(exception, key) ==
    run' = [run EXCEPT !.pc = "done", !.outcome = "exception", !.body = exception,
                       !.missing_field = key]

StageGoto(label) == run' = [run EXCEPT !.pc = label]

Called(rec, call) == [rec EXCEPT !.calls = Append(@, call)]

ConfigError == "Error fetching or parsing the configuration file from S3."
MissingField == "Missing required field in the configuration file: "
MetadataError == "Error fetching processing metadata from S3."

\* The orchestrator invokes a stage handler with an event.
StartStage ==
    /\ run.pc = "idle"
    /\ \E h \in Launchers \cup StatusChecks : \E d, e, o \in BOOLEAN, c \in Configs(h) :
          /\ (h # "launch-training-job") => e
          /\ (h # "launch-hpo") => ~o
          /\ run' = [NoRun EXCEPT !.handler = h, !.pc = "start", !.debug_ = d,
                                  !.config_data = c, !.eval_metric = e,
                                  !.objective_input = o, !.before = platform]
    /\ UNCHANGED <<failures, platform>>
    /\ StageFrame

\* ---- launch-processing-job.py ----
\* get_object of the configuration document, then the field reads
\* (lines 23-51) and the debug_ branch (lines 141-153).
LaunchProcessing_GetConfig ==
    /\ run.handler = "launch-processing-job"
    /\ run.pc = "start"
    /\ \/ /\ CallFails
          /\ StageReturn(500, ConfigError, None)
       \/ /\ UNCHANGED failures
          /\ LET missing_field == Missing(ProcessingFields, run.config_data) IN
             IF missing_field # None
             THEN StageReturn(400, MissingField, missing_field)
             ELSE IF run.debug_
                  THEN StageResults(run, "")
                  ELSE StageGoto("create_job")
    /\ UNCHANGED platform
    /\ StageFrame

\* sagemaker_client.create_processing_job(**processing_args) (lines 141-148).
LaunchProcessing_CreateJob ==
    /\ run.handler = "launch-processing-job"
    /\ run.pc = "create_job"
    /\ \/ /\ CallFails
          /\ StageReturn(500, "Error creating processing job.", None)
          /\ UNCHANGED platform
       \/ /\ UNCHANGED failures
          /\ platform' = platform \cup {"ProcessingJob"}
          /\ StageResults(Called(run, "create_processing_job"), "wine-quality-processor-date")
    /\ StageFrame

\* ---- launch-training-job.py ----
\* eval_metric check, get_config_data and the field reads (lines 83-95,
\* 117-129).
LaunchTraining_GetConfig ==
    /\ run.handler = "launch-training-job"
    /\ run.pc = "start"
    /\ IF ~run.eval_metric
       THEN /\ StageReturn(400, "Evaluation metric ('eval_metric') not provided.", None)
            /\ UNCHANGED failures
       ELSE \/ /\ CallFails
               /\ StageReturn(500, ConfigError, None)
            \/ /\ UNCHANGED failures
               /\ LET missing_field == Missing(TrainingFields, run.config_data) IN
                  IF missing_field # None
                  THEN StageReturn(400, MissingField, missing_field)
                  ELSE StageGoto("list_hyp")
    /\ UNCHANGED platform
    /\ StageFrame

\* list_objects_v2 on best_hyp_config_prefix (lines 97-100, 106).
LaunchTraining_ListHyp ==
    /\ run.handler = "launch-training-job"
    /\ run.pc = "list_hyp"
    /\ \/ /\ CallFails
          /\ StageReturn(500, ConfigError, None)
       \/ /\ UNCHANGED failures
          /\ StageGoto(IF store[BestHyp] = <<>> THEN "default_hyp" ELSE "last_hyp")
    /\ UNCHANGED platform
    /\ StageFrame

\* No tuned record: the default hyperparameters document (lines 100-105).
LaunchTraining_DefaultHyp ==
    /\ run.handler = "launch-training-job"
    /\ run.pc = "default_hyp"
    /\ \/ /\ CallFails
          /\ StageReturn(500, ConfigError, None)
       \/ /\ UNCHANGED failures
          /\ IF "HyperParameters" \notin run.config_data
             THEN StageReturn(400, MissingField, "HyperParameters")
             ELSE run' = [run EXCEPT !.pc = "processing_metadata",
                                     !.hyperparameters =
                                         [from |-> "HyperParameters", record |-> 0,
                                          eval_metric |-> "event"]]
    /\ UNCHANGED platform
    /\ StageFrame

\* Variant: the tuned record is the last one listed.
LaunchTraining_LastHyp_last_listed ==
    /\ run.handler = "launch-training-job"
    /\ run.pc = "last_hyp"
    /\ \/ /\ CallFails
          /\ StageReturn(500, ConfigError, None)
       \/ /\ UNCHANGED failures
          /\ run' = [run EXCEPT !.pc = "processing_metadata",
                                !.hyperparameters =
                                    [from |-> "TunedHyperParameters",
                                     record |-> store[BestHyp][Len(store[BestHyp])].Key,
                                     eval_metric |-> "event"]]
    /\ UNCHANGED platform
    /\ StageFrame

\* The last tuned record: get_last_modified on best_hyp_config_prefix, its
\* TunedHyperParameters with objective and the event's eval_metric set
\* (lines 106-115).
LaunchTraining_LastHyp ==
    /\ run.handler = "launch-training-job"
    /\ run.pc = "last_hyp"
    /\ \/ /\ CallFails
          /\ StageReturn(500, ConfigError, None)
       \/ /\ UNCHANGED failures
          /\ run' = [run EXCEPT !.pc = "processing_metadata",
                                !.hyperparameters =
                                    [from |-> "TunedHyperParameters",
                                     record |-> get_last_modified_training(store[BestHyp])[2],
                                     eval_metric |-> "event"]]
    /\ UNCHANGED platform
    /\ StageFrame

\* get_last_modified on the processing metadata prefix (lines 138-153): an
\* empty listing raises KeyError('Contents'), caught as Exception; then the
\* debug_ branch (lines 202-215).
LaunchTraining_ProcessingMetadata ==
    /\ run.handler = "launch-training-job"
    /\ run.pc = "processing_metadata"
    /\ \/ /\ CallFails
          /\ StageReturn(500, MetadataError, None)
       \/ /\ UNCHANGED failures
          /\ IF store[ProcessingMetadata] = <<>>
             THEN run' = [run EXCEPT !.pc = "done", !.outcome = "result",
                                     !.statusCode = 500, !.body = MetadataError,
                                     !.no_contents = ProcessingMetadata]
             ELSE IF run.debug_
                  THEN StageResults(run, "")
                  ELSE StageGoto("create_job")
    /\ UNCHANGED platform
    /\ StageFrame

\* create_training_job (lines 202-210).
LaunchTraining_CreateJob ==
    /\ run.handler = "launch-training-job"
    /\ run.pc = "create_job"
    /\ \/ /\ CallFails
          /\ StageReturn(500, "Error creating training job.", None)
          /\ UNCHANGED platform
       \/ /\ UNCHANGED failures
          /\ platform' = platform \cup {"TrainingJob"}
          /\ StageResults(Called(run, "create_training_job"), "wine-quality-estimator-date")
    /\ StageFrame

\* ---- launch-hpo.py ----
\* get_config_data in its try (lines 60-67), then Strategy, ResourceLimits,
\* the objective and ParameterRanges read outside any try (lines 77-129): a
\* KeyError leaves the handler.
LaunchHpo_GetConfig ==
    /\ run.handler = "launch-hpo"
    /\ run.pc = "start"
    /\ \/ /\ CallFails
          /\ StageReturn(500, ConfigError, None)
       \/ /\ UNCHANGED failures
          /\ LET key == Missing(HpoFieldsFirst(run.objective_input), run.config_data) IN
             IF key # None
             THEN StageRaise("KeyError", key)
             ELSE StageGoto("processing_metadata")
    /\ UNCHANGED platform
    /\ StageFrame

\* get_processing_metadata (lines 132-143), then TrainingImage, S3OutputPath,
\* InstanceType and RoleArn read outside any try (lines 145-148), then the
\* debug_ branch (lines 227-247).
LaunchHpo_ProcessingMetadata ==
    /\ run.handler = "launch-hpo"
    /\ run.pc = "processing_metadata"
    /\ \/ /\ CallFails
          /\ StageReturn(500, MetadataError, None)
       \/ /\ UNCHANGED failures
          /\ IF store[ProcessingMetadata] = <<>>
             THEN run' = [run EXCEPT !.pc = "done", !.outcome = "result",
                                     !.statusCode = 500, !.body = MetadataError,
                                     !.no_contents = ProcessingMetadata]
             ELSE LET key == Missing(HpoFieldsLast, run.config_data) IN
                  IF key # None
                  THEN StageRaise("KeyError", key)
                  ELSE IF run.debug_
                       THEN StageResults(run, "")
                       ELSE StageGoto("create_job")
    /\ UNCHANGED platform
    /\ StageFrame

\* create_hyper_parameter_tuning_job (lines 227-240).
LaunchHpo_CreateJob ==
    /\ run.handler = "launch-hpo"
    /\ run.pc = "create_job"
    /\ \/ /\ CallFails
          /\ StageReturn(500, "Error creating hpo job.", None)
          /\ UNCHANGED platform
       \/ /\ UNCHANGED failures
          /\ platform' = platform \cup {"HyperParameterTuningJob"}
          /\ StageResults(Called(run, "create_hyper_parameter_tuning_job"), "wine-hpo-date")
    /\ StageFrame

\* ---- launch-batch-job.py ----
\* get_config_data and the field reads (lines 81-88, 94-106).
LaunchBatch_GetConfig ==
    /\ run.handler = "launch-batch-job"
    /\ run.pc = "start"
    /\ \/ /\ CallFails
          /\ StageReturn(500, ConfigError, None)
       \/ /\ UNCHANGED failures
          /\ LET missing_field == Missing(BatchFields, run.config_data) IN
             IF missing_field # None
             THEN StageReturn(400, MissingField, missing_field)
             ELSE StageGoto("last_batch")
    /\ UNCHANGED platform
    /\ StageFrame

\* get_last_modified on the batch data prefix, inside the same try (lines
\* 90-100): the KeyError('Contents') of an empty listing is caught by
\* except KeyError and reported as a missing field.
LaunchBatch_LastBatch ==
    /\ run.handler = "launch-batch-job"
    /\ run.pc = "last_batch"
    /\ \/ /\ CallFails
          /\ StageReturn(500, ConfigError, None)
       \/ /\ UNCHANGED failures
          /\ IF store[BatchNt] = <<>>
             THEN run' = [run EXCEPT !.pc = "done", !.outcome = "result",
                                     !.statusCode = 400, !.body = MissingField,
                                     !.missing_field = "Contents",
                                     !.no_contents = BatchNt]
             ELSE StageGoto("list_model_packages")
    /\ UNCHANGED platform
    /\ StageFrame

NoApproved == "Error: no approved model packages found."

\* Variant: the packages are listed whatever their status.
LaunchBatch_ListApproved_any_status ==
    /\ run.handler = "launch-batch-job"
    /\ run.pc = "list_model_packages"
    /\ \/ /\ CallFails
          /\ StageRaise("ClientError", None)
       \/ /\ UNCHANGED failures
          /\ IF packages = <<>>
             THEN StageReturn(500, NoApproved, None)
             ELSE run' = [run EXCEPT !.pc = "describe_model_package", !.approved_arn = 1]
    /\ UNCHANGED platform
    /\ StageFrame

\* list_model_packages(ModelApprovalStatus='Approved'), outside any try, and
\* the arn of the first package listed (lines 109-121).
LaunchBatch_ListApproved ==
    /\ run.handler = "launch-batch-job"
    /\ run.pc = "list_model_packages"
    /\ \/ /\ CallFails
          /\ StageRaise("ClientError", None)
       \/ /\ UNCHANGED failures
          /\ IF ApprovedArns(packages) = {}
             THEN StageReturn(500, NoApproved, None)
             ELSE \E approved_arn \in ApprovedArns(packages) :
                     run' = [run EXCEPT !.pc = "describe_model_package",
                                        !.approved_arn = approved_arn]
    /\ UNCHANGED platform
    /\ StageFrame

\* describe_model_package of the Approved package, outside any try
\* (lines 121-124).
LaunchBatch_Describe ==
    /\ run.handler = "launch-batch-job"
    /\ run.pc = "describe_model_package"
    /\ \/ /\ CallFails
          /\ StageRaise("ClientError", None)
       \/ /\ UNCHANGED failures
          /\ run' = [run EXCEPT !.pc = "create_model",
                                !.approved_model_url =
                                    packages[run.approved_arn].ModelDataUrl]
    /\ UNCHANGED platform
    /\ StageFrame

\* create_model (lines 139-148), called whatever debug_ is; then the debug_
\* branch (lines 175-189), which clears training_job_name and leaves
\* batch_transform_job_name in the results.
LaunchBatch_CreateModel ==
    /\ run.handler = "launch-batch-job"
    /\ run.pc = "create_model"
    /\ \/ /\ CallFails
          /\ StageReturn(500, "Error creating model", None)
          /\ UNCHANGED platform
       \/ /\ UNCHANGED failures
          /\ platform' = platform \cup {"Model"}
          /\ LET created == [Called(run, "create_model") EXCEPT
                                !.PrimaryContainer = run.approved_model_url]
             IN IF run.debug_
                THEN StageResults(created, "wine-quality-predictor-date")
                ELSE run' = [created EXCEPT !.pc = "create_job"]
    /\ StageFrame

\* create_transform_job (lines 175-185).
LaunchBatch_CreateJob ==
    /\ run.handler = "launch-batch-job"
    /\ run.pc = "create_job"
    /\ \/ /\ CallFails
          /\ StageReturn(500, "Error creating batch job.", None)
          /\ UNCHANGED platform
       \/ /\ UNCHANGED failures
          /\ platform' = platform \cup {"TransformJob"}
          /\ StageResults(Called(run, "create_transform_job"), "wine-quality-predictor-date")
    /\ StageFrame

\* ---- get-*-job-status.py ----
\* describe_*_job in a try whose except only logs: status stays unbound
\* (processing, training, batch) or the log line names the undefined job_name
\* (hpo), and building the result raises.
GetStatus(h, exception) ==
    /\ run.handler = h
    /\ run.pc = "start"
    /\ IF run.debug_
       THEN /\ run' = [run EXCEPT !.pc = "done", !.outcome = "result", !.Status = ""]
            /\ UNCHANGED failures
       ELSE \/ /\ CallFails
               /\ StageRaise(exception, None)
            \/ /\ UNCHANGED failures
               /\ \E status \in {"InProgress", "Completed", "Failed"} :
                     run' = [run EXCEPT !.pc = "done", !.outcome = "result",
                                        !.Status = status]
    /\ UNCHANGED platform
    /\ StageFrame

GetProcessingStatus == GetStatus("get-processing-job-status", "UnboundLocalError")
GetHpoStatus == GetStatus("get-hpo-job-status", "NameError")
GetTrainingStatus == GetStatus("get-training-job-status", "UnboundLocalError")
GetBatchStatus == GetStatus("get-batch-job-status", "UnboundLocalError")

NextStages ==
    \/ StartStage
    \/ LaunchProcessing_GetConfig
    \/ LaunchProcessing_CreateJob
    \/ LaunchTraining_GetConfig
    \/ LaunchTraining_ListHyp
    \/ LaunchTraining_DefaultHyp
    \/ LaunchTraining_LastHyp
    \/ LaunchTraining_ProcessingMetadata
    \/ LaunchTraining_CreateJob
    \/ LaunchHpo_GetConfig
    \/ LaunchHpo_ProcessingMetadata
    \/ LaunchHpo_CreateJob
    \/ LaunchBatch_GetConfig
    \/ LaunchBatch_LastBatch
    \/ LaunchBatch_ListApproved
    \/ LaunchBatch_Describe
    \/ LaunchBatch_CreateModel
    \/ LaunchBatch_CreateJob
    \/ GetProcessingStatus
    \/ GetHpoStatus
    \/ GetTrainingStatus
    \/ GetBatchStatus

SpecStages == InitStages /\ [][NextStages]_vars

\* ------------------------------------------------------------------------
\* Save-metadata handlers
\* ------------------------------------------------------------------------
\* Invocations of a saver in one behaviour.
MaxSaves == 2

\* The job-name field of the event: missing, the empty placeholder a debug
\* run passes on, or the name of a job.
JobNames == {"absent", "empty", "given"}

\* What an invocation did: how it ended, the calls it issued in order, the
\* call that raised, and whether put_object stored the record.
SaverResult(outcome, statusCode, calls, fault, put) ==
    [outcome |-> outcome, statusCode |-> statusCode, calls |-> calls,
     fault |-> fault, put |-> put]

\* Variant: the record is written first, the reads follow.
try_block_put_first(reads, failing) ==
    IF failing \in Range(reads)
    THEN SaverResult("result", 500, <<"put_object">> \o reads, "call", TRUE)
    ELSE SaverResult("result", 200, <<"put_object">> \o reads, None, TRUE)

\* The try block of a saver: the reads in order, then one put_object; the
\* first call that raises ends it in an except branch that returns 500.
try_block(reads, failing) ==
    IF failing \in Range(reads)
    THEN LET n == CHOOSE i \in DOMAIN reads :
                    reads[i] = failing /\ \A j \in 1..(i - 1) : reads[j] # failing
         IN SaverResult("result", 500, SubSeq(reads, 1, n), "call", FALSE)
    ELSE IF failing = "put_object"
         THEN SaverResult("result", 500, reads \o <<"put_object">>, "call", FALSE)
         ELSE SaverResult("result", 200, reads \o <<"put_object">>, None, TRUE)

\* The client rejects a job name that is None or empty before sending the
\* request: ParamValidationError, caught by except Exception.
InvalidName(describe) ==
    SaverResult("result", 500, <<describe>>, "validation", FALSE)

\* save-training-metadata.py: event["TrainingJobName"] in a try that returns
\* 400 on KeyError, then describe_training_job and put_object.
save_training_metadata(job_name, failing) ==
    CASE job_name = "absent" -> SaverResult("result", 400, <<>>, None, FALSE)
      [] job_name = "empty" -> InvalidName("describe_training_job")
      [] job_name = "given" -> try_block(<<"describe_training_job">>, failing)

\* save-hpo-metadata.py: event.get("HPOJobName") never raises, the 400 branch
\* is dead; then describe_hyper_parameter_tuning_job and put_object.
save_hpo_metadata(job_name, failing) ==
    IF job_name = "given"
    THEN try_block(<<"describe_hyper_parameter_tuning_job">>, failing)
    ELSE InvalidName("describe_hyper_parameter_tuning_job")

\* save-batch-metadata.py: event.get('BatchJobName') never raises; then
\* describe_transform_job, describe_model and put_object.
save_batch_metadata(job_name, failing) ==
    IF job_name = "given"
    THEN try_block(<<"describe_transform_job", "describe_model">>, failing)
    ELSE InvalidName("describe_transform_job")

\* save-processing-job-metadata.py: event["ProcessingJobName"] outside any
\* try, 400 on an empty name; then describe_processing_job, the four
\* get_last_modified listings (KeyError on an empty one) and put_object.
save_processing_job_metadata(job_name, failing, contents) ==
    CASE job_name = "absent" -> SaverResult("exception", 0, <<>>, "KeyError", FALSE)
      [] job_name = "empty" -> SaverResult("result", 400, <<>>, None, FALSE)
      [] job_name = "given" ->
            IF contents = <<>> /\ failing # "describe_processing_job"
            THEN SaverResult("result", 500,
                             <<"describe_processing_job", "list_objects_v2">>,
                             "KeyError", FALSE)
            ELSE try_block(<<"describe_processing_job", "list_objects_v2",
                             "list_objects_v2", "list_objects_v2", "list_objects_v2">>,
                           failing)

SaverCalls ==
    {"describe_training_job", "describe_hyper_parameter_tuning_job",
     "describe_transform_job", "describe_model", "describe_processing_job",
     "list_objects_v2", "put_object"}

lambda_handler_saver(h, job_name, failing, contents) ==
    CASE h = "save-training-metadata" -> save_training_metadata(job_name, failing)
      [] h = "save-hpo-metadata" -> save_hpo_metadata(job_name, failing)
      [] h = "save-batch-metadata" -> save_batch_metadata(job_name, failing)
      [] h = "save-processing-job-metadata" ->
            save_processing_job_metadata(job_name, failing, contents)

\* The dataset prefixes are empty or hold objects; nothing else has run.
InitSave ==
    /\ InitRegistry
    /\ nameIn = <<>>
    /\ dirOut = None
    /\ store \in {st \in [Prefixes -> {<<>>, SomeListing}] :
                     \A x \in Prefixes \ {TrainDf} : st[x] = <<>>}
    /\ resolved = [r \in Resolvers |-> Unresolved]
    /\ platform = {}
    /\ run = NoRun
    /\ InitSaversIdle

SaveFrame ==
    UNCHANGED <<group_exists, packages, inv, allOk, ended, nameIn, dirOut, store, resolved,
                platform, run>>

\* A second passes.
Tick ==
    /\ clock <= Len(saves)
    /\ Len(saves) < MaxSaves
    /\ clock' = clock + 1
    /\ UNCHANGED <<failures, loaded, bucket, saves>>
    /\ SaveFrame

\* s3_client.put_object(Bucket, Key, Body): the object under the key is
\* replaced.
put_object(objects, key, body) ==
    {o \in objects : o.Key # key} \cup {[Key |-> key, Body |-> body]}

\* Process q serves an invocation of saver h. The module-level date is
\* computed when the process loads the module (lines 10-14 of each saver), on
\* its first invocation; s3_key is built from it on every invocation. The
\* event names the job of this pipeline execution.
Save(h, q) ==
    /\ Len(saves) < MaxSaves
    /\ IF saves = <<>> THEN TRUE ELSE saves[1].handler = h
    /\ \E job_name \in JobNames,
          failing \in {None} \cup (IF MayFail THEN SaverCalls ELSE {}) :
          LET date == IF loaded[h][q] = 0 THEN clock ELSE loaded[h][q]
              s3_key == <<h, date>>
              job == Len(saves) + 1
              r == lambda_handler_saver(h, job_name, failing, store[TrainDf])
              body == [job |-> job,
                       train_uri |-> IF h = "save-processing-job-metadata" /\ r.put
                                     THEN get_last_modified_saver(store[TrainDf])
                                     ELSE <<>>]
          IN /\ loaded' = [loaded EXCEPT ![h][q] = date]
             /\ bucket' = IF r.put THEN put_object(bucket, s3_key, body) ELSE bucket
             /\ failures' = IF r.fault = "call" THEN failures + 1 ELSE failures
             /\ saves' = Append(saves,
                   [handler |-> h, process |-> q, job_name |-> job_name, job |-> job,
                    s3_key |-> s3_key, outcome |-> r.outcome,
                    statusCode |-> r.statusCode, calls |-> r.calls, fault |-> r.fault,
                    put |-> r.put,
                    overwrote |-> r.put /\ \E o \in bucket : o.Key = s3_key,
                    before |-> bucket, after |-> bucket',
                    registered |-> 0])
    /\ UNCHANGED clock
    /\ SaveFrame

SaveProcessing == \E q \in Processes : Save("save-processing-job-metadata", q)
SaveHpo == \E q \in Processes : Save("save-hpo-metadata", q)
SaveTraining == \E q \in Processes : Save("save-training-metadata", q)
SaveBatch == \E q \in Processes : Save("save-batch-metadata", q)

\* The decider of the execution whose save-training-metadata invocation was
\* the i-th reads the record named by the TrainingMetadataJson it was handed
\* and registers a package from it.
RegisterFromRecord(i) ==
    /\ saves[i].handler = "save-training-metadata"
    /\ saves[i].statusCode = 200
    /\ saves[i].registered = 0
    /\ \E o \in bucket :
          /\ o.Key = saves[i].s3_key
          /\ saves' = [saves EXCEPT ![i].registered = o.Body.job]
    /\ UNCHANGED <<failures, clock, loaded, bucket>>
    /\ SaveFrame

NextSave ==
    \/ Tick
    \/ SaveProcessing
    \/ SaveHpo
    \/ SaveTraining
    \/ SaveBatch
    \/ \E i \in DOMAIN saves : RegisterFromRecord(i)

SpecSave == InitSave /\ [][NextSave]_vars

TypeOK ==
    /\ group_exists \in BOOLEAN
    /\ Len(packages) <= MaxPackages
    /\ failures \in 0..MaxFailures

\* ------------------------------------------------------------------------
\* Properties
\* ------------------------------------------------------------------------
Status(a) == packages[a].ModelApprovalStatus
Done(p) == inv[p].pc = "done"
Over(p) == inv[p].pc \in {"done", "raised"}
Quiescent == \A p \in Invocations : ~Running(p)
Candidate(p) == inv[p].last_training_job_model_package_arn
Production(p) == inv[p].production_model_package_arn
\* Both metrics were read and compared.
Compared(p) == inv[p].best_model # None
\* The packages that existed when the invocation began have the status they
\* had then.
BeforeUnchanged(p) ==
    \A a \in 1..Len(inv[p].before) : Status(a) = inv[p].before[a]
ProductionExisted(p) ==
    \E a \in 1..Len(inv[p].before) : inv[p].before[a] = "Approved"

\* C1: with no call failing, at no point during or after a run of the decider
\* does the group hold more than one Approved package (checked on every state,
\* so also between the two update_model_package calls of lines 218-225).
C1_AtMostOneApprovedAtEveryPoint ==
    failures = 0 => Cardinality(ApprovedArns(packages)) <= 1

\* C2: when two invocations overlap and no call fails, the group holds at most
\* one Approved package once both have returned.
C2_AtMostOneApprovedAfterOverlap ==
    (failures = 0 /\ \A p \in Invocations : Done(p))
        => Cardinality(ApprovedArns(packages)) <= 1

\* C3: after non-overlapping invocations that all returned 200, exactly one
\* package is Approved and every other package is Rejected.
C3_OneApprovedOthersRejected ==
    (allOk /\ ended /\ Quiescent) =>
        /\ Cardinality(ApprovedArns(packages)) = 1
        /\ \A a \in 1..Len(packages) : Status(a) \in {"Approved", "Rejected"}

C3_Witness ==
    /\ allOk /\ ended /\ Quiescent
    /\ Len(packages) >= 3
    /\ \E a \in 1..Len(packages) : Status(a) = "Rejected"

\* C4 as stated: on equal metric values production keeps Approved and the
\* candidate is Rejected.
C4_TieKeepsProduction ==
    \A p \in Invocations :
        (Done(p) /\ inv[p].statusCode = 200 /\ Compared(p)
           /\ inv[p].production_model_metric = inv[p].last_training_job_metric)
        => (Status(Production(p)) = "Approved" /\ Status(Candidate(p)) = "Rejected")

\* C4 amended: on equal metric values the decider picks the candidate, for a
\* maximize-type and for a minimize-type metric, and an invocation that then
\* returns 200 leaves the candidate Approved and production Rejected.
C4_TieApprovesCandidate ==
    \A p \in Invocations :
        (Compared(p)
           /\ inv[p].production_model_metric = inv[p].last_training_job_metric)
        => /\ inv[p].best_model = "new"
           /\ (Done(p) /\ inv[p].statusCode = 200) =>
                 (Status(Candidate(p)) = "Approved" /\ Status(Production(p)) = "Rejected")

C4_Witness ==
    \E p \in Invocations :
        /\ Done(p) /\ inv[p].statusCode = 200 /\ Compared(p)
        /\ inv[p].eval_metric = Logloss
        /\ inv[p].production_model_metric = inv[p].last_training_job_metric
        /\ Status(Candidate(p)) = "Approved"

\* C5: with one production package and different metric values, an invocation
\* that returns 200 ends with the better package Approved and the other
\* Rejected: the larger value wins for accuracy (0.80 against 0.85 approves
\* the candidate), the smaller for logloss (0.30 against 0.45 keeps
\* production).
C5_BetterPackageWins ==
    \A p \in Invocations :
        (Done(p) /\ inv[p].statusCode = 200 /\ Compared(p)
           /\ inv[p].production_model_metric # inv[p].last_training_job_metric)
        => LET pm == inv[p].production_model_metric
               lm == inv[p].last_training_job_metric
               candidateBetter ==
                   IF inv[p].eval_metric = Accuracy THEN lm > pm ELSE lm < pm
               winner == IF candidateBetter THEN Candidate(p) ELSE Production(p)
               loser == IF candidateBetter THEN Production(p) ELSE Candidate(p)
           IN /\ inv[p].eval_metric \in {Accuracy, Logloss}
              /\ Status(winner) = "Approved"
              /\ Status(loser) = "Rejected"
              /\ (inv[p].eval_metric = Accuracy /\ pm = 80 /\ lm = 85)
                    => (Status(Candidate(p)) = "Approved" /\ Status(Production(p)) = "Rejected")
              /\ (inv[p].eval_metric = Logloss /\ pm = 30 /\ lm = 45)
                    => (Status(Production(p)) = "Approved" /\ Status(Candidate(p)) = "Rejected")

C5_Witness ==
    \E p \in Invocations :
        /\ Done(p) /\ inv[p].statusCode = 200 /\ Compared(p)
        /\ inv[p].eval_metric = Logloss
        /\ inv[p].production_model_metric = 30
        /\ inv[p].last_training_job_metric = 45
        /\ Status(Production(p)) = "Approved"
        /\ Status(Candidate(p)) = "Rejected"

\* C6: when the query for Approved packages returns none, the decider reads
\* no metric, writes no status but Approved on the new candidate, and, unless
\* that call fails, returns 200 with the candidate Approved and every other
\* package as it was, also when the candidate lacks the named metric.
C6_ColdStartApproves ==
    \A p \in Invocations :
        inv[p].num_approved_packages = 0 =>
            /\ inv[p].metric_reads = 0
            /\ ~Compared(p)
            /\ ~Done(p) => (inv[p].pc = "approve_first" /\ inv[p].writes = <<>>)
            /\ (Done(p) /\ inv[p].failed = None) =>
                  /\ inv[p].statusCode = 200
                  /\ inv[p].writes = <<<<Candidate(p), "Approved">>>>
                  /\ Status(Candidate(p)) = "Approved"
                  /\ BeforeUnchanged(p)
            /\ (Done(p) /\ inv[p].failed # None) => inv[p].writes = <<>>

C6_Witness ==
    \E p \in Invocations :
        /\ Done(p) /\ inv[p].statusCode = 200
        /\ inv[p].num_approved_packages = 0
        /\ DOMAIN packages[Candidate(p)].CustomerMetadataProperties = {}
        /\ Status(Candidate(p)) = "Approved"

\* s contains m as a contiguous substring.
Contains(s, m) ==
    \E i \in 0..(Len(s) - Len(m)) : SubSeq(s, i + 1, i + Len(m)) = m

\* C7: the direction is maximize exactly when the compared metric name
\* contains one of accuracy, auc, f1, map, ndcg (case-sensitive), and minimize
\* for every other name.
C7_DirectionBySubstring ==
    dirOut # None =>
        /\ dirOut \in {"maximize", "minimize"}
        /\ dirOut = "maximize" <=>
              \E m \in {Accuracy, Auc, F1, Map, Ndcg} : Contains(metric_name(nameIn), m)

C7_Witness ==
    /\ dirOut = "maximize"
    /\ nameIn = <<"i", "n", "a", "c", "c", "u", "r", "a", "c", "y">>

\* C8: when the query for Approved packages returns more than one package,
\* the decider returns 500 with the message about more than one model in
\* production and writes no status: the packages that existed before keep
\* their status and the candidate stays PendingManualApproval.
C8_SeveralApprovedNoWrite ==
    \A p \in Invocations :
        inv[p].num_approved_packages > 1 =>
            /\ Done(p)
            /\ inv[p].statusCode = 500
            /\ inv[p].message = "There are more than 1 models in production"
            /\ inv[p].writes = <<>>
            /\ inv[p].metric_reads = 0
            /\ BeforeUnchanged(p)
            /\ Status(Candidate(p)) = "PendingManualApproval"

C8_Witness ==
    \E p \in Invocations :
        /\ Done(p) /\ inv[p].num_approved_packages > 1
        /\ Cardinality(ApprovedArns(packages)) > 1

\* A read of the registry or the store, or the metric lookup, raised.
ReadFailed(p) ==
    inv[p].failed \in {"KeyError", "list_model_package_groups", "get_object",
                       "describe_model_package", "list_model_packages"}

\* C9: when a production package exists and the metric is missing on either
\* side or any other read step fails, the decider returns an error result and
\* writes no approval status: production stays Approved and the candidate
\* stays pending.
C9_ReadFailureReturnsErrorNoWrite ==
    \A p \in Invocations :
        (Over(p) /\ ProductionExisted(p) /\ ReadFailed(p)) =>
            /\ Done(p)
            /\ inv[p].statusCode = 500
            /\ inv[p].writes = <<>>
            /\ BeforeUnchanged(p)
            /\ Candidate(p) # 0 => Status(Candidate(p)) = "PendingManualApproval"

\* C10: when a registry call of the decider fails, the packages that existed
\* before the invocation keep their status, and the candidate is not left
\* Approved while the former production package is still Approved.
C10_FailedInvocationChangesNothing ==
    \A p \in Invocations :
        (Over(p) /\ inv[p].failed \notin {None, "KeyError"}) =>
            /\ BeforeUnchanged(p)
            /\ ~(/\ Candidate(p) # 0
                 /\ Production(p) # 0
                 /\ Status(Candidate(p)) = "Approved"
                 /\ Status(Production(p)) = "Approved")

\* C11 as stated: in every comparison outcome the decider issues exactly two
\* approval-status writes, Rejected on the loser and Approved on the winner.
C11_TwoWritesInEveryOutcome ==
    \A p \in Invocations :
        (Done(p) /\ inv[p].statusCode = 200 /\ Compared(p)) =>
            LET winner == IF inv[p].best_model = "new" THEN Candidate(p) ELSE Production(p)
                loser == IF inv[p].best_model = "new" THEN Production(p) ELSE Candidate(p)
            IN /\ Len(inv[p].writes) = 2
               /\ \E i \in 1..Len(inv[p].writes) : inv[p].writes[i] = <<loser, "Rejected">>
               /\ \E i \in 1..Len(inv[p].writes) : inv[p].writes[i] = <<winner, "Approved">>

\* C11 amended: a comparison that returns 200 issues two writes when the
\* candidate wins (Approved on the candidate, then Rejected on production) and
\* a single write when production wins (Rejected on the candidate): production
\* is not written again.
C11_WritesPerOutcome ==
    \A p \in Invocations :
        (Done(p) /\ inv[p].statusCode = 200 /\ Compared(p)) =>
            /\ inv[p].best_model = "new" =>
                  inv[p].writes = <<<<Candidate(p), "Approved">>, <<Production(p), "Rejected">>>>
            /\ inv[p].best_model = "production" =>
                  /\ inv[p].writes = <<<<Candidate(p), "Rejected">>>>
                  /\ Status(Production(p)) = "Approved"

C11_Witness ==
    \E p \in Invocations :
        /\ Done(p) /\ inv[p].statusCode = 200 /\ Compared(p)
        /\ inv[p].best_model = "production"
        /\ Len(inv[p].writes) = 1

\* C12 as stated: once a package has left PendingManualApproval its status
\* never changes again.
C12_StatusChangesOnce ==
    [][\A a \in 1..Len(packages) :
          Status(a) # "PendingManualApproval" => packages'[a].ModelApprovalStatus = Status(a)]_vars

\* C12 amended: a package's status changes at most twice, from
\* PendingManualApproval to Approved or Rejected and, for an Approved package
\* that a later candidate displaces, from Approved to Rejected; a Rejected
\* package never changes and no package returns to PendingManualApproval.
C12_StatusOnlyMovesForward ==
    [][\A a \in 1..Len(packages) :
          /\ Status(a) = "Rejected" => packages'[a].ModelApprovalStatus = "Rejected"
          /\ Status(a) = "Approved" =>
                packages'[a].ModelApprovalStatus \in {"Approved", "Rejected"}]_vars

C12_Witness ==
    \E p \in Invocations :
        /\ Done(p) /\ inv[p].statusCode = 200
        /\ Production(p) # 0
        /\ inv[p].before[Production(p)] = "Approved"
        /\ Status(Production(p)) = "Rejected"

\* The invocation is the second run of an event whose first run returned 200,
\* and it read the same training metadata record.
SecondRun(p) ==
    /\ inv[p].rerun.is
    /\ Done(p)
    /\ inv[p].statusCode = 200
    /\ inv[p].training_metadata = inv[p].rerun.training_metadata

\* C13 as stated: after the second run of the same event the Approved package
\* is the package that was Approved after the first run.
C13_SameApprovedPackage ==
    \A p \in Invocations :
        SecondRun(p) => ApprovedArns(packages) = inv[p].rerun.approved

\* C13 amended: after the second run exactly one package is Approved and it
\* has the metric values of the package Approved after the first run; it is
\* that same package when production had won the first run, and the package
\* the second run registered when the first run's candidate had won.
C13_SameModelApproved ==
    \A p \in Invocations :
        SecondRun(p) =>
            /\ Cardinality(inv[p].rerun.approved) = 1
            /\ Cardinality(ApprovedArns(packages)) = 1
            /\ \A w \in inv[p].rerun.approved : \A v \in ApprovedArns(packages) :
                  /\ v = w \/ v = Candidate(p)
                  /\ packages[v].CustomerMetadataProperties
                        = packages[w].CustomerMetadataProperties
                  /\ v = w <=> w # Candidate(p) - 1

C13_Witness ==
    \E p \in Invocations :
        /\ SecondRun(p)
        /\ Compared(p)
        /\ ApprovedArns(packages) = {Candidate(p)}
        /\ inv[p].rerun.approved = {Candidate(p) - 1}

\* The key the call site r resolved.
ResolvedKey(r) ==
    CASE r[1] = "launch-training-job" -> resolved[r].value[2]
      [] r[1] = "launch-batch-job" -> resolved[r].value[1]
      [] r[1] = "save-processing-job-metadata" -> resolved[r].value[4]
      [] r[1] = "launch-hpo" -> resolved[r].value[1].DatasetProperties

\* key names an object of the listing that no other object is newer than.
Newest(contents, key) ==
    \E i \in DOMAIN contents :
        /\ contents[i].Key = key
        /\ \A j \in DOMAIN contents : contents[j].LastModified <= contents[i].LastModified

GetLastModifiedSites == {r \in Resolvers : r[1] # "launch-hpo"}

\* C14: on every non-empty listing, in any listing order, get_last_modified
\* of the training launcher, the batch launcher and the processing-metadata
\* saver returns the key of an object with the maximum LastModified, and the
\* bucket is left as it was.
C14_LatestObjectResolved ==
    /\ [](\A r \in GetLastModifiedSites :
            resolved[r].done => Newest(store[r[2]], ResolvedKey(r)))
    /\ [][store' = store]_vars

\* The newest object is resolved from a listing that does not end with it.
C14_Witness ==
    \E r \in GetLastModifiedSites :
        /\ resolved[r].done
        /\ Len(store[r[2]]) = MaxObjects
        /\ store[r[2]][Len(store[r[2]])].Key # ResolvedKey(r)
        /\ \E i, j \in DOMAIN store[r[2]] :
              i < j /\ store[r[2]][i].LastModified > store[r[2]][j].LastModified

\* list_objects_v2 returns the keys in ascending (lexicographic) order.
KeyOrdered(contents) ==
    \A i, j \in DOMAIN contents : i < j => contents[i].Key < contents[j].Key

\* C15: the tuning-job launcher reads the processing metadata record with the
\* maximum last-modified timestamp, whatever the keys are (here: on the
\* listings the bucket produces, in key order).
C15_HpoReadsLatestRecord ==
    \A r \in Resolvers :
        (r[1] = "launch-hpo" /\ resolved[r].done /\ KeyOrdered(store[r[2]]))
            => Newest(store[r[2]], ResolvedKey(r))

StageDone == run.pc = "done"

JobCreationCalls ==
    {"create_processing_job", "create_hyper_parameter_tuning_job", "create_training_job",
     "create_transform_job"}

CreatedJob == \E i \in DOMAIN run.calls : run.calls[i] \in JobCreationCalls

\* The configuration document lacks a field the invocation needs.
LacksField ==
    /\ run.handler \in Launchers
    /\ ~(Required(run.handler, run.objective_input, store) \subseteq run.config_data)

\* C16: a launcher that resolves the latest object under an empty prefix
\* (training launcher: processing metadata; batch launcher: batch data)
\* returns a 500 result and launches no job.
C16_EmptyPrefixReturns500 ==
    (/\ StageDone
     /\ \/ run.handler = "launch-training-job" /\ run.no_contents = ProcessingMetadata
        \/ run.handler = "launch-batch-job" /\ run.no_contents = BatchNt)
        => /\ run.outcome = "result"
           /\ run.statusCode = 500
           /\ ~CreatedJob

\* C17: a launcher whose configuration document lacks a required field never
\* issues its job-creation call.
C17_MissingFieldNeverLaunches ==
    LacksField => ~CreatedJob

\* The tuning launcher reads a record, then finds a late field missing, with
\* debug_ off: the invocation ends without the job.
C17_Witness ==
    /\ StageDone
    /\ LacksField
    /\ run.handler = "launch-hpo"
    /\ ~run.debug_
    /\ failures = 0
    /\ run.missing_field \in Range(HpoFieldsLast)
    /\ run.calls = <<>>

\* C18: a launcher whose configuration document was fetched and lacks a
\* required field returns statusCode 400 with a body naming the field.
C18_MissingFieldReturns400 ==
    (StageDone /\ LacksField /\ failures = 0 /\ run.eval_metric)
        => /\ run.outcome = "result"
           /\ run.statusCode = 400
           /\ run.body = MissingField
           /\ run.missing_field
                 \in Required(run.handler, run.objective_input, store) \ run.config_data

\* C19: when a platform or storage call of a handler fails, the invocation
\* ends with a result carrying a status code and a message; no exception
\* leaves the handler.
C19_FailureReturnsResult ==
    (StageDone /\ failures > 0)
        => /\ run.outcome = "result"
           /\ run.statusCode # 0
           /\ run.body # None

\* C20: a launcher invoked with debug_ true issues no mutating platform call;
\* the platform is as it was before the invocation.
C20_DebugChangesNothing ==
    (StageDone /\ run.handler \in Launchers /\ run.debug_)
        => /\ run.calls = <<>>
           /\ platform = run.before

Saved(i) == saves[i].outcome = "result" /\ saves[i].statusCode = 200

\* C21: metadata records are append-only: every successful invocation of a
\* saver writes to a key that no earlier invocation wrote.
C21_RecordsAppendOnly ==
    \A i, j \in DOMAIN saves :
        (i < j /\ Saved(i) /\ Saved(j)) =>
            /\ saves[i].s3_key # saves[j].s3_key
            /\ ~saves[j].overwrote

\* C22: a saver invoked with an event that lacks its job-name field returns
\* statusCode 400, with no describe call and no write.
C22_MissingJobNameReturns400 ==
    \A i \in DOMAIN saves :
        saves[i].job_name = "absent" =>
            /\ saves[i].outcome = "result"
            /\ saves[i].statusCode = 400
            /\ saves[i].calls = <<>>
            /\ saves[i].after = saves[i].before

\* C23: a launcher invoked with debug_ true whose configuration reads
\* succeed returns the empty placeholder as the job name.
C23_DebugReturnsEmptyJobName ==
    (/\ StageDone
     /\ run.handler \in Launchers
     /\ run.debug_
     /\ run.outcome = "result"
     /\ run.statusCode = 0)
        => run.job_name = ""

\* The reads a saver needs before it writes.
ReadsNeeded(h) ==
    CASE h = "save-training-metadata" -> 1
      [] h = "save-hpo-metadata" -> 1
      [] h = "save-batch-metadata" -> 2
      [] h = "save-processing-job-metadata" -> 5

Puts(i) == {k \in DOMAIN saves[i].calls : saves[i].calls[k] = "put_object"}

\* A describe or list read of the invocation failed.
ReadFailedIn(i) ==
    /\ saves[i].calls # <<>>
    /\ saves[i].fault # None
    /\ saves[i].calls[Len(saves[i].calls)] # "put_object"

\* C24: a saver issues at most one put_object per invocation, and only after
\* all the reads it needs; when a read fails it returns 500 and the stored
\* records are unchanged.
C24_OnePutAfterReads ==
    \A i \in DOMAIN saves :
        /\ Cardinality(Puts(i)) <= 1
        /\ \A k \in Puts(i) :
              /\ k = ReadsNeeded(saves[i].handler) + 1
              /\ \A j \in 1..(k - 1) : saves[i].calls[j] # "put_object"
        /\ saves[i].after # saves[i].before => Puts(i) # {}
        /\ ReadFailedIn(i) =>
              /\ Puts(i) = {}
              /\ saves[i].outcome = "result"
              /\ saves[i].statusCode = 500
              /\ saves[i].after = saves[i].before

\* The second read of a batch saver fails while earlier records exist.
C24_Witness ==
    \E i \in DOMAIN saves :
        /\ ReadFailedIn(i)
        /\ saves[i].fault = "call"
        /\ saves[i].calls = <<"describe_transform_job", "describe_model">>
        /\ saves[i].before # {}

\* C26: the package a decider invocation registers comes from the training
\* job of its own execution: the record named by the TrainingMetadataJson it
\* received still holds what that execution's save step wrote.
C26_RegistersOwnTrainingJob ==
    \A i \in DOMAIN saves :
        saves[i].registered # 0 => saves[i].registered = saves[i].job

\* C25: the training launcher uses the default hyperparameter document
\* exactly when best_hyp_config_prefix holds no object, otherwise the
\* TunedHyperParameters of the most recently modified record; the event's
\* eval_metric is set in them before the job is launched; an event without
\* eval_metric gets a 400 result before any read or launch.
C25_HyperParametersSource ==
    run.handler = "launch-training-job" =>
        /\ run.hyperparameters.from = "HyperParameters" => store[BestHyp] = <<>>
        /\ run.hyperparameters.from = "TunedHyperParameters" =>
              /\ store[BestHyp] # <<>>
              /\ Newest(store[BestHyp], run.hyperparameters.record)
        /\ run.hyperparameters.from # None => run.hyperparameters.eval_metric = "event"
        /\ (run.pc \in {"processing_metadata", "create_job"} \/ CreatedJob)
              => run.hyperparameters.from # None
        /\ (StageDone /\ ~run.eval_metric) =>
              /\ run.outcome = "result"
              /\ run.statusCode = 400
              /\ run.calls = <<>>
              /\ failures = 0
              /\ run.hyperparameters = NoHyperParameters

\* A job is launched with the tuned record that is newest but not listed last.
C25_Witness ==
    /\ StageDone
    /\ run.handler = "launch-training-job"
    /\ CreatedJob
    /\ run.hyperparameters.from = "TunedHyperParameters"
    /\ store[BestHyp][Len(store[BestHyp])].Key # run.hyperparameters.record

BatchCreated ==
    \/ platform \cap {"Model", "TransformJob"} # {}
    \/ \E i \in DOMAIN run.calls : run.calls[i] \in {"create_model", "create_transform_job"}

\* C27: the batch launcher creates a model and a transform job only when the
\* group holds an Approved package, and the model points at the ModelDataUrl
\* of an Approved package; with no Approved package it returns 500 and has
\* created neither.
C27_BatchUsesApprovedModel ==
    run.handler = "launch-batch-job" =>
        /\ BatchCreated =>
              /\ run.approved_arn \in ApprovedArns(packages)
              /\ run.PrimaryContainer = packages[run.approved_arn].ModelDataUrl
        /\ (StageDone /\ ApprovedArns(packages) = {} /\ run.outcome = "result") =>
              /\ run.statusCode \in {400, 500}
              /\ ~BatchCreated
        /\ (StageDone /\ ApprovedArns(packages) = {} /\ run.outcome = "result"
                /\ failures = 0 /\ ~LacksField /\ store[BatchNt] # <<>>) =>
              /\ run.statusCode = 500
              /\ run.body = NoApproved

\* A transform job is created while the group also holds a Rejected package.
C27_Witness ==
    /\ StageDone
    /\ run.handler = "launch-batch-job"
    /\ "TransformJob" \in platform
    /\ Len(packages) = 2
    /\ run.approved_arn = 2

\* C28: a package that has become Rejected never becomes Approved again; a
\* package becomes Approved only from PendingManualApproval, and every
\* Approved write of an invocation is on the candidate it created itself.
C28_RejectedNeverApproved ==
    /\ [](\A p \in Invocations : \A i \in 1..Len(inv[p].writes) :
            inv[p].writes[i][2] = "Approved" =>
                /\ inv[p].writes[i][1] = Candidate(p)
                /\ Candidate(p) > Len(inv[p].before))
    /\ [][\A a \in 1..Len(packages) :
            /\ Status(a) = "Rejected" => packages'[a].ModelApprovalStatus # "Approved"
            /\ (Status(a) # "Approved" /\ packages'[a].ModelApprovalStatus = "Approved") =>
                  /\ Status(a) = "PendingManualApproval"
                  /\ \E p \in Invocations : Running(p) /\ Candidate(p) = a]_vars

\* A later invocation has approved its own candidate while a package that was
\* already Rejected when it began is still Rejected.
C28_Witness ==
    \E p \in Invocations :
        /\ Done(p) /\ inv[p].statusCode = 200
        /\ Status(Candidate(p)) = "Approved"
        /\ \E a \in 1..Len(inv[p].before) :
              inv[p].before[a] = "Rejected" /\ Status(a) = "Rejected"

\* create_model_package has read the training metadata.
ReadMetadata(p) ==
    /\ inv[p].pc \notin {"idle", "list_groups", "create_group", "get_object", "raised"}
    /\ inv[p].failed # "get_object"

\* The invocation has issued its query for Approved packages.
Queried(p) ==
    \/ inv[p].num_approved_packages >= 0
    \/ inv[p].failed = "list_model_packages"

\* The invocation registered one package, which no one has written since.
AddedOnePending(p) ==
    /\ Candidate(p) = Len(inv[p].before) + 1
    /\ Len(packages) = Len(inv[p].before) + 1
    /\ inv[p].writes = <<>> => Status(Candidate(p)) = "PendingManualApproval"

\* The failures after the query that C29 names.
FailedAfterQuery(p) ==
    /\ Done(p)
    /\ inv[p].statusCode = 500
    /\ inv[p].num_approved_packages > 1 \/ inv[p].failed = "KeyError"

\* C29 as stated: every invocation that has read its training metadata adds
\* exactly one package, created PendingManualApproval, before it queries for
\* Approved packages, and the package stays pending when the invocation then
\* fails.
C29_EveryReadAddsOnePackage ==
    \A p \in Invocations :
        /\ (ReadMetadata(p) /\ inv[p].pc # "create_package") => AddedOnePending(p)
        /\ FailedAfterQuery(p) =>
              inv[p].writes = <<>> /\ Status(Candidate(p)) = "PendingManualApproval"

\* C29 amended: an invocation whose create_model_package call succeeds adds
\* exactly one package, created PendingManualApproval whatever model_status is
\* passed, and only such an invocation queries for Approved packages; that
\* package stays pending when the invocation then fails on more than one
\* Approved package or on a missing metric.  When the create_model_package
\* call itself fails after the metadata was read, the invocation returns 500
\* and has added no package.
C29_CreatedPackageStaysPending ==
    /\ \A tm \in TrainingMetadata :
          \A model_status \in {"Approved", "Rejected", "PendingManualApproval"} :
              NewPackage(model_status, tm).ModelApprovalStatus = "PendingManualApproval"
    /\ \A p \in Invocations :
          /\ Candidate(p) # 0 => AddedOnePending(p)
          /\ Queried(p) => Candidate(p) # 0
          /\ (ReadMetadata(p) /\ Candidate(p) = 0 /\ inv[p].pc # "create_package") =>
                /\ Done(p)
                /\ inv[p].statusCode = 500
                /\ inv[p].failed = "create_model_package"
                /\ Len(packages) = Len(inv[p].before)
          /\ FailedAfterQuery(p) =>
                inv[p].writes = <<>> /\ Status(Candidate(p)) = "PendingManualApproval"

\* An invocation has found two Approved packages and returned 500, its own
\* package left pending.
C29_Witness ==
    \E p \in Invocations :
        /\ FailedAfterQuery(p)
        /\ inv[p].num_approved_packages > 1
        /\ Candidate(p) = Len(packages)
        /\ Status(Candidate(p)) = "PendingManualApproval"

====
